---- MODULE Spec2Model ----
(***************************************************************************)
(* A model of dlc_run.py: a command-line wrapper that validates its        *)
(* arguments, looks up a workspace id, composes a shell command and        *)
(* submits it with the external dlc tool.                                  *)
(*                                                                         *)
(* Text is modelled as a sequence of atoms.  An atom is a one-character    *)
(* string for text the program inspects character by character (the --env  *)
(* values, the output of the workspace lookup) and a whole literal for     *)
(* text the program only copies ("export ", " && ", a job name).           *)
(***************************************************************************)
EXTENDS Integers, Sequences, FiniteSets, TLC

VARIABLES
    pc,            \* position of main(): a line label, or "exited"
    argv,          \* the command line, as argparse receives it
    args,          \* the argparse namespace built so far
    validation,    \* the validate_conda_env calls made, in order
    calls,         \* the subprocess.run invocations made, in order
    printed,       \* what print() and argparse wrote, in order
    workspace_id,  \* result of get_workspace_id, None until then
    cmd,           \* env_var_cmds, full_command, dlc_full_command
    exit_code,     \* exit status of the process, None while running
    env_vars,      \* parse_env_vars: the list of --env values given
    env_out,       \* parse_env_vars: the dict and the exports made of it
    ws_in,         \* get_workspace_id: partition and lookup output
    ws_out         \* get_workspace_id: the value returned

vars == <<pc, argv, args, validation, calls, printed, workspace_id, cmd,
          exit_code, env_vars, env_out, ws_in, ws_out>>

\* Python's None, where a text is expected
None == <<"None">>

-----------------------------------------------------------------------------
(* Text helpers: str.split, str.strip, str.join, `in`.                     *)

IsSpace(c) == c \in {" ", "\t", "\n"}

RECURSIVE JoinStr(_, _)
JoinStr(sep, parts) ==
    IF parts = <<>> THEN <<>>
    ELSE IF Len(parts) = 1 THEN parts[1]
    ELSE parts[1] \o sep \o JoinStr(sep, Tail(parts))

\* index of the first occurrence of atom c in s, 0 when there is none
RECURSIVE Find(_, _, _)
Find(s, c, i) ==
    IF i > Len(s) THEN 0
    ELSE IF s[i] = c THEN i
    ELSE Find(s, c, i + 1)

\* s.split(c): the pieces between every occurrence of c
RECURSIVE Split(_, _)
Split(s, c) ==
    LET i == Find(s, c, 1)
    IN  IF i = 0 THEN <<s>>
        ELSE <<SubSeq(s, 1, i - 1)>> \o Split(SubSeq(s, i + 1, Len(s)), c)

RECURSIVE LStrip(_)
LStrip(s) ==
    IF s # <<>> /\ IsSpace(s[1]) THEN LStrip(Tail(s)) ELSE s

RECURSIVE RStrip(_)
RStrip(s) ==
    IF s # <<>> /\ IsSpace(s[Len(s)]) THEN RStrip(SubSeq(s, 1, Len(s) - 1))
    ELSE s

Strip(s) == RStrip(LStrip(s))

Contains(sub, s) ==
    \E i \in 0..(Len(s) - Len(sub)) : SubSeq(s, i + 1, i + Len(sub)) = sub

\* [x for x in parts if x]
RECURSIVE NonEmpty(_)
NonEmpty(parts) ==
    IF parts = <<>> THEN <<>>
    ELSE IF parts[1] = <<>> THEN NonEmpty(Tail(parts))
    ELSE <<parts[1]>> \o NonEmpty(Tail(parts))

-----------------------------------------------------------------------------
(* parse_env_vars.  A Python dict is a sequence of <<key, value>> entries  *)
(* in insertion order; assigning to a key that is present replaces the     *)
(* value in place.                                                         *)

RECURSIVE KeyIndex(_, _, _)
KeyIndex(d, key, i) ==
    IF i > Len(d) THEN 0
    ELSE IF d[i][1] = key THEN i
    ELSE KeyIndex(d, key, i + 1)

\* a dict assignment that forgets to overwrite: the first value given stays
DictSetFirstWins(d, key, value) ==
    IF KeyIndex(d, key, 1) = 0 THEN Append(d, <<key, value>>) ELSE d

\* a dict assignment that moves a key given again to the end
DictSetMoveToEnd(d, key, value) ==
    SelectSeq(d, LAMBDA e : e[1] # key) \o <<<<key, value>>>>

\* env_dict[key] = value
DictSet(d, key, value) ==
    LET i == KeyIndex(d, key, 1)
    IN  IF i = 0 THEN Append(d, <<key, value>>)
        ELSE [d EXCEPT ![i] = <<key, value>>]

\* the body of `for pair in pairs`
AddPair(d, pair) ==
    LET i == Find(pair, "=", 1)
    IN  IF i = 0 THEN d
        ELSE DictSet(d, Strip(SubSeq(pair, 1, i - 1)),
                        Strip(SubSeq(pair, i + 1, Len(pair))))

RECURSIVE AddPairs(_, _)
AddPairs(d, pairs) ==
    IF pairs = <<>> THEN d ELSE AddPairs(AddPair(d, pairs[1]), Tail(pairs))

RECURSIVE AddItems(_, _)
AddItems(d, items) ==
    IF items = <<>> THEN d
    ELSE AddItems(AddPairs(d, Split(items[1], ";")), Tail(items))

parse_env_vars(items) == AddItems(<<>>, items)

\* ' && '.join([f'export {key}={value}' for key, value in env_dict.items()])
ExportStmt(e) == <<"export ">> \o e[1] \o <<"=">> \o e[2]

EnvVarCmds(d) == JoinStr(<<" && ">>, [i \in 1..Len(d) |-> ExportStmt(d[i])])

-----------------------------------------------------------------------------
(* The inputs parse_env_vars is exercised on.  The --env values are        *)
(* written out from a list of KEY=VALUE pairs: each pair is put either     *)
(* into a new --env value or after a `;` into the current one, with or     *)
(* without blanks around the key and the value.  A piece without `=` is    *)
(* written as its key text alone.                                          *)

MaxPieces == 3

EnvKeys == {<<"A">>, <<"B">>}
EnvVals == {<<"1">>, <<"2", "=", "1">>}

EnvPieces ==
    [key : EnvKeys, val : EnvVals, pad : BOOLEAN, eq : {TRUE}]
    \cup {[key |-> <<"A">>, val |-> <<>>, pad |-> FALSE, eq |-> FALSE]}

EnvSources ==
    {src \in UNION {[1..n -> [piece : EnvPieces, brk : BOOLEAN]] : n \in 0..MaxPieces} :
        src # <<>> => src[1].brk}

PieceText(p) ==
    IF ~p.eq THEN p.key
    ELSE IF p.pad THEN <<" ">> \o p.key \o <<" ", "=", " ">> \o p.val \o <<" ">>
    ELSE p.key \o <<"=">> \o p.val

RECURSIVE EnvText(_, _)
EnvText(items, src) ==
    IF src = <<>> THEN items
    ELSE IF src[1].brk
         THEN EnvText(Append(items, PieceText(src[1].piece)), Tail(src))
         ELSE EnvText([items EXCEPT ![Len(items)] = @ \o <<";">> \o PieceText(src[1].piece)],
                      Tail(src))

InitEnvVars ==
    /\ \E src \in EnvSources : env_vars = [pairs |-> src, text |-> EnvText(<<>>, src)]
    /\ env_out = [dict |-> <<>>, cmds |-> <<>>]

\* lines 161-163 of main: the dict, then the export statements made of it
ParseEnvVars ==
    /\ pc = "parse_env_vars"
    /\ pc' = "returned"
    /\ LET d == parse_env_vars(env_vars.text)
       IN  env_out' = [dict |-> d, cmds |-> EnvVarCmds(d)]
    /\ UNCHANGED <<argv, args, validation, calls, printed, workspace_id,
                   cmd, exit_code, env_vars, ws_in, ws_out>>

-----------------------------------------------------------------------------
(* get_workspace_id.  The pattern                                          *)
(*     \|\s*<partition>\s*\|\s*([\w]+)\s*\|                                *)
(* is searched in the whole output, leftmost match first.  \s also matches *)
(* a line break.  Every repetition is followed by something it cannot      *)
(* itself match, so the greedy reading is the only one.                    *)

IsWord(c) == c \in {"a", "b", "w", "1", "2", "_"}

RECURSIVE SkipSpace(_, _)
SkipSpace(s, i) ==
    IF i <= Len(s) /\ IsSpace(s[i]) THEN SkipSpace(s, i + 1) ELSE i

RECURSIVE SkipWord(_, _)
SkipWord(s, i) ==
    IF i <= Len(s) /\ IsWord(s[i]) THEN SkipWord(s, i + 1) ELSE i

IsBar(s, i) == i <= Len(s) /\ s[i] = "|"

\* the pattern without its leading \| : the partition may end a longer name
MatchAtUnanchored(partition, s, i) ==
    LET j == i
        k == SkipSpace(s, j + Len(partition))
        m == SkipSpace(s, k + 1)
        n == SkipWord(s, m)
        q == SkipSpace(s, n)
    IN  IF /\ partition # <<>>
           /\ j + Len(partition) - 1 <= Len(s)
           /\ SubSeq(s, j, j + Len(partition) - 1) = partition
           /\ IsBar(s, k)
           /\ n > m
           /\ IsBar(s, q)
        THEN SubSeq(s, m, n - 1)
        ELSE None

\* group(1) of a match of the pattern that starts at position i, or None
MatchAt(partition, s, i) ==
    LET j == SkipSpace(s, i + 1)
        k == SkipSpace(s, j + Len(partition))
        m == SkipSpace(s, k + 1)
        n == SkipWord(s, m)
        q == SkipSpace(s, n)
    IN  IF /\ IsBar(s, i)
           /\ j + Len(partition) - 1 <= Len(s)
           /\ SubSeq(s, j, j + Len(partition) - 1) = partition
           /\ IsBar(s, k)
           /\ n > m
           /\ IsBar(s, q)
        THEN SubSeq(s, m, n - 1)
        ELSE None

\* re.search(regex, stdout); if match: return match.group(1).strip()
RECURSIVE Search(_, _, _)
Search(partition, s, i) ==
    IF i > Len(s) THEN None
    ELSE IF MatchAt(partition, s, i) # None
         THEN Strip(MatchAt(partition, s, i))
         ELSE Search(partition, s, i + 1)

\* the value get_workspace_id returns for an outcome of subprocess.run;
\* an OSError is not a SubprocessError and leaves the function uncaught
get_workspace_id(partition, run) ==
    IF run.kind = "ok" THEN Search(partition, run.stdout, 1) ELSE None

-----------------------------------------------------------------------------
(* The lookup outputs get_workspace_id is exercised on: a table of         *)
(* two-column rows `| name | id |`, written with or without blanks in the  *)
(* cells, between rule lines and blank lines, each line ended by a line    *)
(* break.                                                                  *)

MaxLines == 3

Partitions == {<<"a">>, <<"b">>}
RowNames == {<<"a">>, <<"b">>, <<"b", "a">>}
RowIds == {<<"w", "1">>, <<"a">>}

WsLines ==
    [name : RowNames, id : RowIds, pad : BOOLEAN, row : {TRUE}]
    \cup {[name |-> t, id |-> <<>>, pad |-> FALSE, row |-> FALSE] :
            t \in {<<>>, <<"+", "-", "+", "-", "+">>}}

LineText(l) ==
    IF ~l.row THEN l.name
    ELSE IF l.pad
         THEN <<"|", " ">> \o l.name \o <<" ", " ", "|", " ">> \o l.id \o <<" ", "|">>
         ELSE <<"|">> \o l.name \o <<"|">> \o l.id \o <<"|">>

RECURSIVE WsText(_)
WsText(lines) ==
    IF lines = <<>> THEN <<>>
    ELSE LineText(lines[1]) \o <<"\n">> \o WsText(Tail(lines))

WsTables == UNION {[1..n -> WsLines] : n \in 0..MaxLines}

InitWorkspace ==
    /\ \E p \in Partitions, t \in WsTables :
          ws_in = [partition |-> p, table |-> t, stdout |-> WsText(t)]
    /\ ws_out = None

\* lines 21-24 and 28: the search of an output the dlc tool returned
SearchWorkspace ==
    /\ pc = "get_workspace_id"
    /\ pc' = "returned"
    /\ ws_out' = get_workspace_id(ws_in.partition,
                                  [kind |-> "ok", stdout |-> ws_in.stdout])
    /\ UNCHANGED <<argv, args, validation, calls, printed, workspace_id,
                   cmd, exit_code, env_vars, env_out, ws_in>>

-----------------------------------------------------------------------------
(* get_conda_envs and validate_conda_env.  subprocess.run either returns   *)
(* the output, raises CalledProcessError (a SubprocessError) when the      *)
(* command exits non-zero, or raises OSError when the command cannot be    *)
(* started.                                                                *)

\* line.split()[0]: the first run of non-blank atoms; <<>> when there is none
FirstWord(line) ==
    LET t == LStrip(line)
        e == CHOOSE i \in 0..Len(t) :
                /\ \A j \in 1..i : ~IsSpace(t[j])
                /\ i = Len(t) \/ IsSpace(t[i + 1])
    IN  SubSeq(t, 1, e)

\* the lines the loop of get_conda_envs takes a name from
EnvLines(stdout) ==
    SelectSeq(Split(stdout, "\n"), LAMBDA line : line # <<>> /\ line[1] # "#")

\* what get_conda_envs does for an outcome of subprocess.run:
\* the list returned, or the exception that leaves it
get_conda_envs(run) ==
    IF run.kind = "OSError" THEN [raised |-> "OSError", envs |-> <<>>]
    ELSE IF run.kind = "CalledProcessError" THEN [raised |-> "", envs |-> <<>>]
    ELSE LET lines == EnvLines(run.stdout)
         IN  IF \E i \in 1..Len(lines) : FirstWord(lines[i]) = <<>>
             THEN [raised |-> "IndexError", envs |-> <<>>]
             ELSE [raised |-> "",
                   envs |-> [i \in 1..Len(lines) |-> FirstWord(lines[i])]]

ExistingPaths == {<<"/opt/env">>}

\* Path(value).exists(); Path('') is the current directory
PathExists(value) == value = <<>> \/ value \in ExistingPaths

InList(value, envs) == \E i \in 1..Len(envs) : envs[i] = value

NotValidMessage(value, envs) ==
    value \o <<" is not a valid conda environment. ", "Available: ">>
          \o JoinStr(<<", ">>, envs)

validate_conda_env(value, run) ==
    LET got == get_conda_envs(run)
    IN  IF got.raised # ""
        THEN [kind |-> got.raised, text |-> <<>>, envs |-> <<>>]
        ELSE IF InList(value, got.envs) \/ PathExists(value) \/ value = <<>>
        THEN [kind |-> "return", text |-> value, envs |-> got.envs]
        ELSE [kind |-> "ArgumentTypeError",
              text |-> NotValidMessage(value, got.envs), envs |-> got.envs]

-----------------------------------------------------------------------------
(* The command composed by main.                                           *)

USER == "user"
HOME == <<"/cpfs01/user/", USER>>
Cwd == "/work"

Num(n) == <<ToString(n)>>

home_cmd == <<"export HOME=">> \o HOME

shell_cmd(a) ==
    IF a.shell # "none" THEN <<a.shell, " -c \"source ~/.", a.shell, "rc">>
    ELSE <<>>

conda_cmd(conda_env) ==
    IF conda_env # <<>> THEN <<"conda activate ">> \o conda_env ELSE <<>>

proxy_cmd(a) ==
    IF a.proxy
    THEN <<"export http_proxy=http://58.34.83.134:31128", " && ",
           "export https_proxy=http://58.34.83.134:31128">>
    ELSE <<"unset http_proxy;unset https_proxy">>

env_var_cmds(a) == EnvVarCmds(parse_env_vars(a.env))

full_env_cmd(a, conda_env) ==
    JoinStr(<<" && ">>,
            NonEmpty(<<home_cmd, proxy_cmd(a), env_var_cmds(a), shell_cmd(a),
                       conda_cmd(conda_env)>>))

\* lines 172-174: the conditional expression binds weaker than `+`, so the
\* whole concatenation is its first operand
full_command(a, conda_env) ==
    IF shell_cmd(a) # <<>>
    THEN full_env_cmd(a, conda_env) \o <<" && cd ", Cwd, " && ">>
            \o Strip(JoinStr(<<" ">>, a.task_cmds)) \o <<"\"">>
    ELSE <<>>

\* half of the memory, rounded up
SharedMemoryUp(m) == (m + 1) \div 2

\* args.worker_memory // 2
SharedMemory(m) == m \div 2

dlc_command(a, conda_env, id) ==
    << <<a.dlc_path, " create job">>,
       <<"--config ", a.config>>,
       <<"--name ", a.job_name>>,
       <<"--kind ", a.kind>>,
       <<"--worker_count ">> \o Num(a.worker_count),
       <<"--worker_cpu ">> \o Num(a.worker_cpu),
       <<"--worker_gpu ">> \o Num(a.worker_gpu),
       <<"--worker_memory ">> \o Num(a.worker_memory),
       <<"--worker_image ", a.worker_image>>,
       <<"--workspace_id ">> \o id,
       <<"--worker_shared_memory ">> \o Num(SharedMemory(a.worker_memory)),
       IF a.interactive THEN <<"--interactive">> ELSE <<>>,
       <<"--command '">> \o full_command(a, conda_env) \o <<"'">> >>

dlc_full_command(a, conda_env, id) ==
    JoinStr(<<" ">>, NonEmpty(dlc_command(a, conda_env, id)))

-----------------------------------------------------------------------------
(* The command lines and the outcomes of the external commands main is     *)
(* run on.                                                                 *)

MaxCondaFlags == 2
MaxMemory == 4

Defaults ==
    [job_name |-> "dlc_job", partition |-> <<"a">>,
     config |-> "/cpfs01/user/user/.dlc/config",
     dlc_path |-> "/cpfs01/shared/public/dlc", kind |-> "PyTorchJob",
     worker_count |-> 1, worker_gpu |-> 8, worker_cpu |-> 120,
     worker_image |-> "master0:5000/eflops/yehaochen:tears-and-blood1",
     worker_memory |-> 800, interactive |-> FALSE, shell |-> "none",
     conda_env |-> <<>>, proxy |-> FALSE, env |-> <<>>, task_cmds |-> <<>>]

Shells == {"bash", "zsh", "none"}

\* --job-name foo --worker-count 2 --worker-gpu 4, or none of the three
Sizings ==
    {[job_name |-> "dlc_job", worker_count |-> 1, worker_gpu |-> 8],
     [job_name |-> "foo", worker_count |-> 2, worker_gpu |-> 4]}

CondaValues == {<<"base">>, <<"nope">>, <<"/opt/env">>}
CondaFlags == UNION {[1..n -> CondaValues] : n \in 0..MaxCondaFlags}

EnvFlags ==
    {<<>>,
     << <<"A", "=", "1", ";", "B", "=", "2">> >>,
     << <<"A", "=", "1", ";", "B", "=", "2", ";", "A", "=", "3">>,
        <<"B", "=", "x", "=", "y">> >>}

\* the trailing tokens; the second command line begins with an empty token
TaskCmds == {<< <<"echo">>, <<"hi">> >>, << <<>>, <<"run">> >>}

\* every flag varied but the memory, and the memory varied with the shell
CommandLines ==
    {[Defaults EXCEPT !.job_name = z.job_name, !.worker_count = z.worker_count,
                      !.worker_gpu = z.worker_gpu, !.conda_env = c,
                      !.shell = sh, !.proxy = px, !.env = e, !.task_cmds = t] :
        z \in Sizings, c \in CondaFlags, sh \in Shells, px \in BOOLEAN,
        e \in EnvFlags, t \in TaskCmds}
    \cup
    {[Defaults EXCEPT !.worker_memory = m, !.shell = sh, !.interactive = TRUE,
                      !.task_cmds = << <<"echo">>, <<"hi">> >>] :
        m \in (0 - MaxMemory)..MaxMemory, sh \in Shells}

CondaListing ==
    <<"#", " ", "conda", " ", "environments:", "\n", "#", "\n",
      "base", " ", " ", "*", " ", "/opt/conda", "\n",
      "foo", " ", "/opt/foo", "\n", "\n">>

CondaRuns ==
    {[kind |-> "ok", stdout |-> CondaListing],
     [kind |-> "ok", stdout |-> CondaListing \o <<" ", "\n">>],
     [kind |-> "CalledProcessError", stdout |-> <<>>],
     [kind |-> "OSError", stdout |-> <<>>]}

WorkspaceRuns ==
    {[kind |-> "ok", stdout |-> WsText(t)] :
        t \in {<<>>,
               <<[name |-> <<"b">>, id |-> <<"2">>, pad |-> TRUE, row |-> TRUE]>>,
               <<[name |-> <<"b">>, id |-> <<"2">>, pad |-> TRUE, row |-> TRUE],
                 [name |-> <<"a">>, id |-> <<"w", "1">>, pad |-> TRUE, row |-> TRUE]>>}}
    \cup {[kind |-> "CalledProcessError", stdout |-> <<>>],
          [kind |-> "OSError", stdout |-> <<>>]}

ReturnCodes == {0, 1, 2}

-----------------------------------------------------------------------------
(* main.                                                                   *)

FnIdle ==
    /\ env_vars = [pairs |-> <<>>, text |-> <<>>]
    /\ env_out = [dict |-> <<>>, cmds |-> <<>>]
    /\ ws_in = [partition |-> <<>>, table |-> <<>>, stdout |-> <<>>]
    /\ ws_out = None

MainIdle ==
    /\ args = [conda_env |-> <<>>, validated |-> 0]
    /\ validation = <<>>
    /\ calls = <<>>
    /\ printed = <<>>
    /\ workspace_id = None
    /\ cmd = [env_var_cmds |-> <<>>, full_command |-> <<>>,
              dlc_full_command |-> <<>>]
    /\ exit_code = <<>>

Init ==
    /\ pc = "parse_args"
    /\ argv \in CommandLines
    /\ MainIdle
    /\ FnIdle

\* the values argparse converts with type=validate_conda_env, all of them
\* and the default as well
CondaArgumentsAndDefault(a) == << <<>> >> \o a.conda_env

\* the values argparse converts with type=validate_conda_env: each
\* --conda-env value in turn, and the default '' when there is none
CondaArguments(a) ==
    IF a.conda_env = <<>> THEN << <<>> >> ELSE a.conda_env

Traceback(kind) == <<"Traceback (most recent call last): ", kind>>

\* line 145: parse_args converts the next --conda-env value
ValidateCondaEnv ==
    /\ pc = "parse_args"
    /\ \E run \in CondaRuns :
        LET todo == CondaArguments(argv)
            value == todo[args.validated + 1]
            r == validate_conda_env(value, run)
        IN  /\ calls' = Append(calls, [cmd |-> "conda env list", result |-> run.kind])
            /\ validation' = Append(validation,
                                    [value |-> value, listing |-> run.kind,
                                     envs |-> r.envs, result |-> r.kind,
                                     text |-> r.text])
            /\ printed' = printed
                  \o (IF run.kind = "CalledProcessError"
                      THEN <<<<"Failed to retrieve conda environments: ">>>>
                      ELSE <<>>)
                  \o (IF r.kind = "return" THEN <<>>
                      ELSE IF r.kind = "ArgumentTypeError"
                      THEN <<<<"error: argument --conda-env: ">> \o r.text>>
                      ELSE <<Traceback(r.kind)>>)
            /\ IF r.kind = "return"
               THEN /\ args' = [conda_env |-> r.text,
                                validated |-> args.validated + 1]
                    /\ pc' = IF args.validated + 1 = Len(todo)
                             THEN "get_workspace_id" ELSE "parse_args"
                    /\ exit_code' = exit_code
               ELSE /\ args' = args
                    /\ pc' = "exited"
                    /\ exit_code' = IF r.kind = "ArgumentTypeError"
                                    THEN <<2>> ELSE <<1>>
    /\ UNCHANGED <<argv, workspace_id, cmd, env_vars, env_out, ws_in, ws_out>>

\* a check that lets a missing id through
NoIdNever(id) == FALSE

\* line 148: `if not workspace_id`
NoId(id) == id = None \/ id = <<>>

\* lines 147-150
LookupWorkspace ==
    /\ pc = "get_workspace_id"
    /\ \E run \in WorkspaceRuns :
        LET id == get_workspace_id(argv.partition, run)
        IN  /\ calls' = Append(calls, [cmd |-> "dlc get workspace", result |-> run.kind])
            /\ IF run.kind = "OSError"
               THEN /\ printed' = Append(printed, Traceback("OSError"))
                    /\ workspace_id' = workspace_id
                    /\ pc' = "exited"
                    /\ exit_code' = <<1>>
               ELSE /\ workspace_id' = id
                    /\ printed' = printed
                          \o (IF run.kind = "CalledProcessError"
                              THEN <<<<"Error retrieving workspace ID: ">>>>
                              ELSE <<>>)
                          \o (IF NoId(id)
                              THEN <<<<"Failed to retrieve workspace ID.">>>>
                              ELSE <<>>)
                    /\ pc' = IF NoId(id) THEN "exited" ELSE "compose"
                    /\ exit_code' = IF NoId(id) THEN <<1>> ELSE exit_code
    /\ UNCHANGED <<argv, args, validation, cmd, env_vars, env_out, ws_in, ws_out>>

\* lines 152-193
Compose ==
    /\ pc = "compose"
    /\ pc' = "submit"
    /\ cmd' = [env_var_cmds |-> env_var_cmds(argv),
               full_command |-> full_command(argv, args.conda_env),
               dlc_full_command |->
                   dlc_full_command(argv, args.conda_env, workspace_id)]
    /\ printed' = Append(printed,
                         <<"Executing command:", "\n">>
                             \o dlc_full_command(argv, args.conda_env, workspace_id))
    /\ UNCHANGED <<argv, args, validation, calls, workspace_id, exit_code,
                   env_vars, env_out, ws_in, ws_out>>

\* a submission whose failure is swallowed
SubmitStatusSwallowed(returncode) == 0

\* line 194: check=True raises CalledProcessError on a non-zero return code,
\* nothing catches it, and the interpreter ends with status 1
SubmitStatus(returncode) == IF returncode = 0 THEN 0 ELSE 1

Submit ==
    /\ pc = "submit"
    /\ pc' = "exited"
    /\ \E returncode \in ReturnCodes :
        /\ calls' = Append(calls,
                           [cmd |-> "dlc create job",
                            result |-> IF returncode = 0 THEN "ok"
                                       ELSE "CalledProcessError"])
        /\ exit_code' = <<SubmitStatus(returncode)>>
        /\ printed' = IF returncode = 0 THEN printed
                      ELSE Append(printed, Traceback("CalledProcessError"))
    /\ UNCHANGED <<argv, args, validation, workspace_id, cmd,
                   env_vars, env_out, ws_in, ws_out>>

Next == ValidateCondaEnv \/ LookupWorkspace \/ Compose \/ Submit

Spec == Init /\ [][Next]_vars

InitEnv ==
    /\ pc = "parse_env_vars"
    /\ argv = Defaults
    /\ MainIdle
    /\ InitEnvVars
    /\ ws_in = [partition |-> <<>>, table |-> <<>>, stdout |-> <<>>]
    /\ ws_out = None

SpecEnv == InitEnv /\ [][ParseEnvVars]_vars

InitWs ==
    /\ pc = "get_workspace_id"
    /\ argv = Defaults
    /\ MainIdle
    /\ InitWorkspace
    /\ env_vars = [pairs |-> <<>>, text |-> <<>>]
    /\ env_out = [dict |-> <<>>, cmds |-> <<>>]

SpecWorkspace == InitWs /\ [][SearchWorkspace]_vars

-----------------------------------------------------------------------------
(* Properties of parse_env_vars and of the exports, under SpecEnv.         *)

\* the KEY=VALUE pairs of the input, in input order
Occurrences ==
    LET given == SelectSeq(env_vars.pairs, LAMBDA e : e.piece.eq)
    IN  [j \in 1..Len(given) |-> given[j].piece]

KeysGiven == {Occurrences[j].key : j \in 1..Len(Occurrences)}

LastValueOf(key) ==
    LET j == CHOOSE j \in 1..Len(Occurrences) :
                /\ Occurrences[j].key = key
                /\ \A k \in (j + 1)..Len(Occurrences) : Occurrences[k].key # key
    IN  Occurrences[j].val

\* the keys in the order in which each is first given
FirstGiven ==
    LET first == SelectSeq([j \in 1..Len(Occurrences) |-> j],
                           LAMBDA j : \A k \in 1..(j - 1) :
                                         Occurrences[k].key # Occurrences[j].key)
    IN  [i \in 1..Len(first) |-> Occurrences[first[i]].key]

-----------------------------------------------------------------------------
(* Properties of get_workspace_id, under SpecWorkspace.                    *)

\* the rows `| <partition> | <id> |` of the table, in output order
RowsOfPartition ==
    SelectSeq(ws_in.table, LAMBDA l : l.row /\ l.name = ws_in.partition)

\* C5: get_workspace_id returns the id of the first row of the requested
\* partition, without the blanks around it, and None when the output has no
\* row of that partition.
C5_FirstRowOfPartition ==
    pc = "returned" =>
        IF RowsOfPartition = <<>> THEN ws_out = None
        ELSE ws_out = RowsOfPartition[1].id

\* the first row is of another partition and has the requested partition's
\* name as its id, and two rows of the requested partition with different
\* ids follow
C5_Witness ==
    /\ pc = "returned"
    /\ Len(ws_in.table) = 3
    /\ ws_in.table[1].row /\ ws_in.table[1].name # ws_in.partition
    /\ ws_in.table[1].id = ws_in.partition
    /\ Len(RowsOfPartition) = 2
    /\ RowsOfPartition[1].id # RowsOfPartition[2].id
    /\ ws_out = RowsOfPartition[1].id

-----------------------------------------------------------------------------
(* Properties of a run of main, under Spec.                                *)

Called(name) == \E i \in 1..Len(calls) : calls[i].cmd = name

CalledWith(name, result) ==
    \E i \in 1..Len(calls) : calls[i].cmd = name /\ calls[i].result = result

Count(name) == Cardinality({i \in 1..Len(calls) : calls[i].cmd = name})

Composed == cmd.dlc_full_command # <<>>

\* the lookup raised a subprocess error, or its output had no matching line
LookupGaveNoId ==
    \/ CalledWith("dlc get workspace", "CalledProcessError")
    \/ CalledWith("dlc get workspace", "ok") /\ workspace_id = None

\* C1: with --job-name foo --worker-count 2 --worker-gpu 4 --env "A=1;B=2"
\* -- echo hi and every other option at its default, the submission command
\* line has --name foo, --worker_count 2, --worker_gpu 4, and its --command
\* value has `export A=1 && export B=2` and later `cd <cwd> && echo hi`.
C1_EndToEnd ==
    ( /\ Composed
      /\ argv = [Defaults EXCEPT !.job_name = "foo", !.worker_count = 2,
                                 !.worker_gpu = 4,
                                 !.env = << <<"A", "=", "1", ";", "B", "=", "2">> >>,
                                 !.task_cmds = << <<"echo">>, <<"hi">> >>] )
    =>  LET line == cmd.dlc_full_command
            value == cmd.full_command
            exports == <<"export ", "A", "=", "1", " && ", "export ", "B", "=", "2">>
            task == <<" && cd ", Cwd, " && ", "echo", " ", "hi">>
        IN  /\ Contains(<<"--name ", "foo", " ">>, line)
            /\ Contains(<<"--worker_count ", "2", " ">>, line)
            /\ Contains(<<"--worker_gpu ", "4", " ">>, line)
            /\ Contains(<<"--command '">> \o value \o <<"'">>, line)
            /\ \E i \in 1..Len(value), j \in 1..Len(value) :
                  /\ SubSeq(value, i, i + Len(exports) - 1) = exports
                  /\ i + Len(exports) <= j
                  /\ SubSeq(value, j, j + Len(task) - 1) = task

\* C2: when the workspace lookup gives no id, the run has printed the
\* failure message, has ended with exit status 1 and has not invoked the
\* job submission.
C2_NoIdNoSubmission ==
    LookupGaveNoId =>
        /\ pc = "exited"
        /\ exit_code = <<1>>
        /\ \E i \in 1..Len(printed) :
              printed[i] = <<"Failed to retrieve workspace ID.">>
        /\ ~Called("dlc create job")

\* the lookup ran and its output had no row of the partition
C2_Witness ==
    /\ CalledWith("dlc get workspace", "ok")
    /\ workspace_id = None
    /\ pc = "exited"
    /\ exit_code = <<1>>

\* C4: validate_conda_env returns the value exactly when it is in the list
\* of discovered environments, or an existing path, or empty; otherwise it
\* fails with an argument error that names the discovered environments (none
\* when the listing failed), and no submission is attempted.
C4_ValidateCondaEnv ==
    \A i \in 1..Len(validation) :
        LET v == validation[i]
        IN  IF InList(v.value, v.envs) \/ v.value \in ExistingPaths \/ v.value = <<>>
            THEN v.result = "return" /\ v.text = v.value
            ELSE /\ v.result = "ArgumentTypeError"
                 /\ Contains(<<"Available: ">> \o JoinStr(<<", ">>, v.envs), v.text)
                 /\ ~Called("dlc create job")

\* C6: the submission command carries --worker_memory M and
\* --worker_shared_memory S with 2*S <= M <= 2*S + 1.
C6_SharedMemoryIsHalf ==
    Composed =>
        LET M == argv.worker_memory
            line == cmd.dlc_full_command
            bound == (IF M < 0 THEN 0 - M ELSE M) + 1
            k == Find(line, "--worker_shared_memory ", 1)
        IN  /\ Contains(<<" ", "--worker_memory ", ToString(M), " ">>, line)
            /\ k > 0 /\ k + 2 <= Len(line) /\ line[k + 2] = " "
            /\ \E S \in (0 - bound)..bound :
                  /\ line[k + 1] = ToString(S)
                  /\ 2 * S <= M /\ M <= 2 * S + 1

\* a command is composed for an odd, negative memory
C6_Witness ==
    /\ Composed
    /\ argv.worker_memory < 0
    /\ argv.worker_memory % 2 = 1
    /\ Called("dlc create job")

\* C7: a run that has ended has exit status 0 when the submission succeeded,
\* 1 when the workspace lookup failed, and a non-zero status when the
\* submission exited non-zero.
C7_ExitStatus ==
    pc = "exited" =>
        /\ CalledWith("dlc create job", "ok") => exit_code = <<0>>
        /\ ( \/ LookupGaveNoId
             \/ CalledWith("dlc get workspace", "OSError") ) => exit_code = <<1>>
        /\ CalledWith("dlc create job", "CalledProcessError") =>
              Len(exit_code) = 1 /\ exit_code[1] # 0

\* the submission exited non-zero
C7_Witness ==
    /\ pc = "exited"
    /\ CalledWith("dlc create job", "CalledProcessError")
    /\ exit_code = <<1>>

\* C8: the --command value is the non-empty ones of: export HOME, the proxy
\* switch, the exports, the shell start, the conda activation, joined by
\* ` && `, then ` && cd <cwd> && ` and the task tokens joined by blanks
\* (a shell start may be closed by its quote at the very end).
C8_ComposedCommand ==
    Composed =>
        LET fragments ==
                <<home_cmd, proxy_cmd(argv), cmd.env_var_cmds,
                  IF argv.shell = "none" THEN <<>>
                  ELSE <<argv.shell, " -c \"source ~/.", argv.shell, "rc">>,
                  IF args.conda_env = <<>> THEN <<>>
                  ELSE <<"conda activate ">> \o args.conda_env>>
            expected ==
                JoinStr(<<" && ">>, SelectSeq(fragments, LAMBDA f : f # <<>>))
                    \o <<" && cd ", Cwd, " && ">>
                    \o Strip(JoinStr(<<" ">>, argv.task_cmds))
        IN  \/ cmd.full_command = expected
            \/ argv.shell # "none" /\ cmd.full_command = expected \o <<"\"">>

Rank(c) ==
    CASE c.cmd = "conda env list" -> 1
      [] c.cmd = "dlc get workspace" -> 2
      [] c.cmd = "dlc create job" -> 3

SubmissionWellFounded ==
    Called("dlc create job") =>
        /\ \A i \in 1..Len(validation) : validation[i].result = "return"
        /\ CalledWith("dlc get workspace", "ok")
        /\ workspace_id # None /\ workspace_id # <<>>

\* C10, as stated: the listing, the lookup and the submission are invoked in
\* this order, each at most once, and the submission only after validation
\* passed and the lookup returned a non-empty id.
C10_EachAtMostOnce ==
    /\ \A i, j \in 1..Len(calls) : i < j => Rank(calls[i]) < Rank(calls[j])
    /\ SubmissionWellFounded

\* C10, amended: the listing is invoked once for every --conda-env value
\* validated (once, for the default, when the flag is absent), in the order
\* given and all before the lookup; the lookup and the submission are
\* invoked at most once each, in this order; the submission only after every
\* value was accepted and the lookup returned a non-empty id.
C10_ListingPerValue ==
    LET given == IF argv.conda_env = <<>> THEN 1 ELSE Len(argv.conda_env)
    IN  /\ \A i, j \in 1..Len(calls) : i < j => Rank(calls[i]) <= Rank(calls[j])
        /\ Count("dlc get workspace") <= 1
        /\ Count("dlc create job") <= 1
        /\ Count("conda env list") = Len(validation)
        /\ Len(validation) <= given
        /\ \A i \in 1..Len(validation) :
              validation[i].value =
                  IF argv.conda_env = <<>> THEN <<>> ELSE argv.conda_env[i]
        /\ Called("dlc get workspace") =>
              /\ Len(validation) = given
              /\ \A i \in 1..Len(validation) : validation[i].result = "return"
        /\ SubmissionWellFounded

\* --conda-env was given twice, and the listing, the lookup and the
\* submission have all been invoked
C10_Witness ==
    /\ Len(argv.conda_env) = 2
    /\ Count("conda env list") = 2
    /\ Called("dlc get workspace")
    /\ Called("dlc create job")
    /\ pc = "exited"

====
